---- MODULE Spec2Model ----
(***************************************************************************)
(* A model of the two runtime-independent parts of jetson_tensorrt:        *)
(*                                                                         *)
(*   - ClusteredNonMaximumSuppression (src/src/tensorrt/DIGITSDetector.cpp) *)
(*     the geometry setters, calculateScale, rectOverlap, mergeRect and    *)
(*     execute;                                                            *)
(*   - CUDAImagePreprocessor (src/src/tensorrt/CUDAImagePreprocessor.cpp)  *)
(*     inputFromHost and swapIO over two CUDASizedMemCache instances.      *)
(*                                                                         *)
(* Representation of numbers.  The dimension fields are integers: the      *)
(* constructor initialises them with 0 and the scale factors with 0.0,     *)
(* and the setters take size_t.  A float is held here as the number of     *)
(* halves it is worth (the float 1.5 is 3): every float execute computes   *)
(* from the inputs below is a multiple of 0.5, so the arithmetic is exact. *)
(* imageScaleX/Y and cellWidth/Height hold integers (the quotient of two   *)
(* size_t values) and are kept as those integers.                          *)
(***************************************************************************)
EXTENDS Integers, Sequences, FiniteSets, TLC

\* ------------------------------------------------------------ bounds
\* Largest image / network-input / grid dimension a setter is called with.
MaxImageDim == 2
MaxInputDim == 2
MaxGridDim == 2
\* Largest class count execute is called with.
MaxClasses == 2
\* Longest coverage array (nbClasses * gridSize) execute is called with.
MaxCoverageLen == 4

\* Largest dimension, and number of re-settings once all three are supplied,
\* in the specification of the setters alone.
MaxDim == 3
MaxResets == 2
\* Largest size inputFromHost is called with, and the number of swapIO calls.
MaxSize == 2
MaxSwaps == 2
\* cudaMemcpy's results: cudaSuccess (0) and an error code (11, cudaErrorInvalidValue).
CopyStatuses == {0, 11}

\* Coverage values (tenths) and thresholds execute is called with: with the
\* threshold 5 both values are above it, with 7 the value 7 sits exactly on it.
CoverageValues == {7, 9}
Thresholds == {5, 7}
\* Per-cell box offsets <<left, top, right, bottom>> in halves: a small box,
\* a tall one and a wide one.  Every edge is non-negative and left <= right,
\* top <= bottom, so the size_t conversions of execute stay in range.
BoxOffsets == {<<0, 0, 1, 1>>, <<0, 0, 1, 2>>, <<0, 0, 3, 1>>}

\* ------------------------------------------------------------ state
VARIABLES
  \* ClusteredNonMaximumSuppression fields
  imageDimX, imageDimY, imageScaleX, imageScaleY,
  inputDimX, inputDimY, gridDimX, gridDimY,
  cellWidth, cellHeight, gridSize,
  imageReady, inputReady, gridReady,
  \* execute: position, arguments and locals
  pc, coverage, bboxes, nbClasses, coverageThreshold,
  c, y, x, rects, classRectangles, outcome,
  \* history: for each accumulated rectangle, the cell whose candidate was
  \* appended as it; and the arguments/result of the last mergeRect call
  origin, lastMerge,
  \* CUDAImagePreprocessor: the two cache pointers, the CUDASizedMemCache
  \* objects they point to (each the set of device buffers it holds), the
  \* device allocator, and whether the preprocessor is still alive
  inputCache, outputCache, caches, deviceLive, allocCount, alive,
  \* history: the last call and what it did, the number of swapIO calls, the
  \* sizes requested of each cache, those a buffer was returned for, and the
  \* buffers handed out so far
  call, nSwaps, requested, served, handedOut,
  \* history of the geometry setters: the setters in the order of their
  \* first calls, and the number of setter calls made once all three
  \* dimension sets had been supplied
  setOrder, nResets

nmsFields == <<imageDimX, imageDimY, imageScaleX, imageScaleY,
               inputDimX, inputDimY, gridDimX, gridDimY,
               cellWidth, cellHeight, gridSize,
               imageReady, inputReady, gridReady>>
execVars == <<pc, coverage, bboxes, nbClasses, coverageThreshold,
              c, y, x, rects, classRectangles, outcome, origin, lastMerge>>
preVars == <<inputCache, outputCache, caches, deviceLive, allocCount, alive,
             call, nSwaps, requested, served, handedOut>>
geomHist == <<setOrder, nResets>>
vars == <<nmsFields, execVars, preVars, geomHist>>

\* ------------------------------------------------------------ helpers
Min(a, b) == IF a < b THEN a ELSE b
Max(a, b) == IF a > b THEN a ELSE b

\* int/size_t -> float (halves)
ToFloat(n) == 2 * n
\* float (halves, non-negative) -> size_t: truncation
ToSize(f) == f \div 2

make_float6(fx, fy, fz, fw, fv, fu) ==
  [x |-> fx, y |-> fy, z |-> fz, w |-> fw, v |-> fv, u |-> fu]

rectOverlap(r1, r2) ==
  ~(r2.x > r1.z \/ r2.z < r1.x \/ r2.y > r1.w \/ r2.w < r1.y)

\* Index of the first accumulated rectangle from position r on that overlaps
\* rect, or 0 when the scan reaches the end.
RECURSIVE FirstOverlap(_, _, _)
FirstOverlap(rs, rect, r) ==
  IF r > Len(rs) THEN 0
  ELSE IF rectOverlap(rs[r], rect) THEN r
  ELSE FirstOverlap(rs, rect, r + 1)

\* An expansion that also takes over the larger confidence.
Expand_MaxConfidence(old, rect) ==
  [old EXCEPT !.x = IF rect.x < old.x THEN rect.x ELSE old.x,
              !.y = IF rect.y < old.y THEN rect.y ELSE old.y,
              !.z = IF rect.z > old.z THEN rect.z ELSE old.z,
              !.w = IF rect.w > old.w THEN rect.w ELSE old.w,
              !.v = IF rect.v > old.v THEN rect.v ELSE old.v]

Expand(old, rect) ==
  [old EXCEPT !.x = IF rect.x < old.x THEN rect.x ELSE old.x,
              !.y = IF rect.y < old.y THEN rect.y ELSE old.y,
              !.z = IF rect.z > old.z THEN rect.z ELSE old.z,
              !.w = IF rect.w > old.w THEN rect.w ELSE old.w]

\* A mergeRect that expands the last overlapping rectangle instead of the first.
RECURSIVE LastOverlap(_, _, _)
LastOverlap(rs, rect, r) ==
  IF r < 1 THEN 0
  ELSE IF rectOverlap(rs[r], rect) THEN r
  ELSE LastOverlap(rs, rect, r - 1)

mergeRect_LastMatch(rs, rect) ==
  LET r == LastOverlap(rs, rect, Len(rs))
  IN  IF r # 0 THEN [rs EXCEPT ![r] = Expand(rs[r], rect)]
      ELSE Append(rs, rect)

\* A mergeRect that expands the first accumulated rectangle whenever there is
\* one, overlapping or not.
mergeRect_NoOverlapTest(rs, rect) ==
  IF Len(rs) > 0 THEN [rs EXCEPT ![1] = Expand(rs[1], rect)]
  ELSE Append(rs, rect)

\* A mergeRect that never sets intersects: every candidate is appended.
mergeRect_AlwaysAppend(rs, rect) == Append(rs, rect)

mergeRect(rs, rect) ==
  LET r == FirstOverlap(rs, rect, 1)
  IN  IF r # 0 THEN [rs EXCEPT ![r] = Expand(rs[r], rect)]
      ELSE Append(rs, rect)

\* ------------------------------------------------------------ geometry
calculateScaleX(inX, imX) == inX \div imX
calculateScaleY(inY, imY) == inY \div imY
calculateCellWidth(inX, gX) == inX \div gX
calculateCellHeight(inY, gY) == inY \div gY

\* A setter that computes the scale factors only on the call that completes
\* the geometry and not on the calls after it.
ScaleAfter_OnceOnly(ready, imX, imY, inX, inY, gX, gY) ==
  IF ready /\ ~(imageReady /\ inputReady /\ gridReady)
  THEN /\ imageScaleX' = calculateScaleX(inX, imX)
       /\ imageScaleY' = calculateScaleY(inY, imY)
       /\ cellWidth' = calculateCellWidth(inX, gX)
       /\ cellHeight' = calculateCellHeight(inY, gY)
  ELSE UNCHANGED <<imageScaleX, imageScaleY, cellWidth, cellHeight>>

\* The tail of each setter: if (imageReady && inputReady && gridReady)
\* calculateScale(); given the fields as the setter has just written them.
ScaleAfter(ready, imX, imY, inX, inY, gX, gY) ==
  IF ready
  THEN /\ imageScaleX' = calculateScaleX(inX, imX)
       /\ imageScaleY' = calculateScaleY(inY, imY)
       /\ cellWidth' = calculateCellWidth(inX, gX)
       /\ cellHeight' = calculateCellHeight(inY, gY)
  ELSE UNCHANGED <<imageScaleX, imageScaleY, cellWidth, cellHeight>>

setupImage(dx, dy) ==
  /\ pc = "idle"
  /\ imageDimX' = dx
  /\ imageDimY' = dy
  /\ imageReady' = TRUE
  /\ ScaleAfter(inputReady /\ gridReady, dx, dy, inputDimX, inputDimY,
                gridDimX, gridDimY)
  /\ UNCHANGED <<inputDimX, inputDimY, gridDimX, gridDimY, gridSize,
                 inputReady, gridReady, execVars, preVars>>

setupInput(dx, dy) ==
  /\ pc = "idle"
  /\ inputDimX' = dx
  /\ inputDimY' = dy
  /\ inputReady' = TRUE
  /\ ScaleAfter(imageReady /\ gridReady, imageDimX, imageDimY, dx, dy,
                gridDimX, gridDimY)
  /\ UNCHANGED <<imageDimX, imageDimY, gridDimX, gridDimY, gridSize,
                 imageReady, gridReady, execVars, preVars>>

setupGrid(dx, dy) ==
  /\ pc = "idle"
  /\ gridDimX' = dx
  /\ gridDimY' = dy
  /\ gridSize' = dx * dy
  /\ gridReady' = TRUE
  /\ ScaleAfter(imageReady /\ inputReady, imageDimX, imageDimY,
                inputDimX, inputDimY, dx, dy)
  /\ UNCHANGED <<imageDimX, imageDimY, inputDimX, inputDimY,
                 imageReady, inputReady, execVars, preVars>>

\* ------------------------------------------------------------ execute
\* The flat bboxes array of execute for a choice of per-cell offsets:
\* bboxes[k * gridSize + i] is edge k of cell i.
FlatBoxes(cells) ==
  [j \in 1..(4 * Len(cells)) |->
     cells[((j - 1) % Len(cells)) + 1][((j - 1) \div Len(cells)) + 1]]

CoverageAt(cc, yy, xx) == coverage[cc * gridSize + yy * gridDimX + xx + 1]
BboxAt(k, yy, xx) == bboxes[k * gridSize + yy * gridDimX + xx + 1]

\* The candidate rectangle of cell (xx, yy) for class cc (lines 237-252).
Candidate(cc, yy, xx) ==
  LET mx == ToFloat(xx * cellWidth)
      my == ToFloat(yy * cellHeight)
  IN  make_float6((BboxAt(0, yy, xx) + mx) * imageScaleX,
                  (BboxAt(1, yy, xx) + my) * imageScaleY,
                  (BboxAt(2, yy, xx) + mx) * imageScaleX,
                  (BboxAt(3, yy, xx) + my) * imageScaleY,
                  CoverageAt(cc, yy, xx), cc)

\* A threshold test that lets every cell through.
AboveThreshold_Always(cc, yy, xx) == CoverageAt(cc, yy, xx) >= 0

AboveThreshold(cc, yy, xx) == CoverageAt(cc, yy, xx) > coverageThreshold

\* The call: the arguments are bound and rects is resized to nbClasses.
executeCall(n, thr, cov, cells) ==
  /\ pc = "idle"
  /\ nbClasses' = n
  /\ coverageThreshold' = thr
  /\ coverage' = cov
  /\ bboxes' = FlatBoxes(cells)
  /\ rects' = [i \in 1..n |-> <<>>]
  /\ origin' = [i \in 1..n |-> <<>>]
  /\ classRectangles' = <<>>
  /\ outcome' = "running"
  /\ lastMerge' = [called |-> FALSE]
  /\ c' = 0 /\ y' = 0 /\ x' = 0
  /\ pc' = IF gridDimY > 0 /\ gridDimX > 0 THEN "cluster" ELSE "collect"
  /\ UNCHANGED <<nmsFields, preVars, geomHist>>

\* One iteration of the innermost loop (lines 235-254) and the loop headers
\* that follow it.
executeCell ==
  /\ pc = "cluster"
  /\ IF AboveThreshold(c, y, x)
     THEN LET rect == Candidate(c, y, x)
              after == mergeRect(rects[c + 1], rect)
          IN  /\ rects' = [rects EXCEPT ![c + 1] = after]
              /\ origin' = IF Len(after) > Len(rects[c + 1])
                           THEN [origin EXCEPT
                                   ![c + 1] = Append(@, y * gridDimX + x)]
                           ELSE origin
              /\ lastMerge' = [called |-> TRUE, before |-> rects[c + 1],
                               rect |-> rect, after |-> after]
     ELSE UNCHANGED <<rects, origin, lastMerge>>
  /\ IF x + 1 < gridDimX
     THEN /\ x' = x + 1
          /\ UNCHANGED <<y, c, pc>>
     ELSE /\ x' = 0
          /\ IF y + 1 < gridDimY
             THEN /\ y' = y + 1
                  /\ UNCHANGED <<c, pc>>
             ELSE /\ y' = 0
                  /\ c' = c + 1
                  /\ pc' = IF c + 1 < nbClasses THEN "cluster" ELSE "collect"
  /\ UNCHANGED <<nmsFields, preVars, geomHist, coverage, bboxes, nbClasses,
                 coverageThreshold,
                 classRectangles, outcome>>

\* RTClassifiedRegionOfInterest(classID, coverage, x1, y1, x2 - x1, y2 - y1)
Region(r) ==
  LET x1 == ToSize(r.x)
      y1 == ToSize(r.y)
      x2 == ToSize(r.z)
      y2 == ToSize(r.w)
  IN  [classID |-> r.u, coverage |-> r.v,
       x |-> x1, y |-> y1, w |-> x2 - x1, h |-> y2 - y1]

\* The output loops (lines 263-283) from class cc, box b on, with out the
\* regions pushed so far; boxIndex is Len(out).
RECURSIVE Collect(_, _, _, _, _)
Collect(rs, cc, b, out, maxBoundingBoxes) ==
  IF cc > Len(rs) THEN out
  ELSE IF b <= Len(rs[cc]) /\ Len(out) < maxBoundingBoxes
       THEN Collect(rs, cc, b + 1, Append(out, Region(rs[cc][b])),
                    maxBoundingBoxes)
       ELSE Collect(rs, cc + 1, 1, out, maxBoundingBoxes)

executeCollect ==
  /\ pc = "collect"
  /\ classRectangles' = Collect(rects, 1, 1, <<>>, gridSize * nbClasses)
  /\ outcome' = "returned"
  /\ pc' = "done"
  /\ UNCHANGED <<nmsFields, preVars, geomHist, coverage, bboxes, nbClasses,
                 coverageThreshold,
                 c, y, x, rects, origin, lastMerge>>

\* The caller takes the result; execute's locals go out of scope.
executeReturn ==
  /\ pc = "done"
  /\ pc' = "idle"
  /\ coverage' = <<>> /\ bboxes' = <<>>
  /\ nbClasses' = 0 /\ coverageThreshold' = 0
  /\ c' = 0 /\ y' = 0 /\ x' = 0
  /\ rects' = <<>> /\ origin' = <<>> /\ classRectangles' = <<>>
  /\ outcome' = "none"
  /\ lastMerge' = [called |-> FALSE]
  /\ UNCHANGED <<nmsFields, preVars, geomHist>>

\* ------------------------------------------------------------ NMS spec
InitNMS ==
  /\ imageDimX = 0 /\ imageDimY = 0
  /\ imageScaleX = 0 /\ imageScaleY = 0
  /\ inputDimX = 0 /\ inputDimY = 0
  /\ gridDimX = 0 /\ gridDimY = 0
  /\ cellWidth = 0 /\ cellHeight = 0
  /\ gridSize = 0
  /\ imageReady = FALSE /\ inputReady = FALSE /\ gridReady = FALSE

InitExec ==
  /\ pc = "idle"
  /\ coverage = <<>> /\ bboxes = <<>>
  /\ nbClasses = 0 /\ coverageThreshold = 0
  /\ c = 0 /\ y = 0 /\ x = 0
  /\ rects = <<>> /\ origin = <<>> /\ classRectangles = <<>>
  /\ outcome = "none"
  /\ lastMerge = [called |-> FALSE]

\* ------------------------------------------------------------ caches
\* The two CUDASizedMemCache objects the constructor creates.
InputCacheId == 1
OutputCacheId == 2

\* The buffers of a cache that can serve a request of size bytes.
Sufficient(bufs, size) == {b \in bufs : b.capacity >= size}

\* A cache that keeps a single buffer: a request of another size frees the
\* buffer it holds and allocates anew.
getCUDAAlloc_SingleBuffer(bufs, size, addr, allocOk) ==
  IF \E b \in bufs : b.capacity = size
  THEN {[ok |-> TRUE, buffer |-> b, bufs |-> bufs, allocated |-> FALSE,
         attempts |-> 0, freed |-> {}] : b \in {d \in bufs : d.capacity = size}}
  ELSE IF allocOk
  THEN {[ok |-> TRUE, buffer |-> [addr |-> addr, capacity |-> size],
         bufs |-> {[addr |-> addr, capacity |-> size]},
         allocated |-> TRUE, attempts |-> 1,
         freed |-> {b.addr : b \in bufs}]}
  ELSE {[ok |-> FALSE, buffer |-> [addr |-> 0, capacity |-> 0],
         bufs |-> {}, allocated |-> FALSE, attempts |-> 1,
         freed |-> {b.addr : b \in bufs}]}

\* CUDASizedMemCache::getCUDAAlloc(size) on a cache holding bufs: the set of
\* its possible results.  A cached buffer of sufficient capacity is returned
\* without allocating; otherwise exactly size bytes are allocated at the
\* fresh address addr and recorded, or, when the device allocator cannot
\* satisfy the request (allocOk false), the call fails and caches nothing.
getCUDAAlloc(bufs, size, addr, allocOk) ==
  IF Sufficient(bufs, size) # {}
  THEN {[ok |-> TRUE, buffer |-> b, bufs |-> bufs, allocated |-> FALSE,
         attempts |-> 0, freed |-> {}] : b \in Sufficient(bufs, size)}
  ELSE IF allocOk
  THEN {[ok |-> TRUE, buffer |-> [addr |-> addr, capacity |-> size],
         bufs |-> bufs \cup {[addr |-> addr, capacity |-> size]},
         allocated |-> TRUE, attempts |-> 1, freed |-> {}]}
  ELSE {[ok |-> FALSE, buffer |-> [addr |-> 0, capacity |-> 0],
         bufs |-> bufs, allocated |-> FALSE, attempts |-> 1, freed |-> {}]}

\* An inputFromHost that ignores cudaMemcpy's status.
InputOutcome_StatusIgnored(res, status) ==
  IF ~res.ok THEN "AllocationError" ELSE "returned"

\* The outcome of inputFromHost given the acquire's result and cudaMemcpy's
\* status: an allocation failure propagates; a non-zero status is thrown as
\* std::runtime_error.
InputOutcome(res, status) ==
  IF ~res.ok THEN "AllocationError"
  ELSE IF status # 0 THEN "runtime_error"
  ELSE "returned"

\* The cache inputFromHost acquires its buffer from.
StagingCache == inputCache

inputFromHost(size, allocOk, status) ==
  /\ alive
  /\ \E res \in getCUDAAlloc(caches[StagingCache], size, allocCount + 1,
                             allocOk) :
       /\ caches' = [caches EXCEPT ![StagingCache] = res.bufs]
       /\ deviceLive' = (deviceLive \cup
                           (IF res.allocated THEN {res.buffer.addr} ELSE {}))
                        \ res.freed
       /\ allocCount' = allocCount + (IF res.allocated THEN 1 ELSE 0)
       /\ handedOut' = handedOut \cup
                         (IF res.ok THEN {res.buffer.addr} ELSE {})
       /\ requested' = [requested EXCEPT ![StagingCache] = @ \cup {size}]
       /\ served' = IF res.ok
                    THEN [served EXCEPT ![StagingCache] = @ \cup {size}]
                    ELSE served
       /\ call' = [op |-> "inputFromHost", size |-> size,
                   cache |-> StagingCache,
                   inputBefore |-> inputCache, outputBefore |-> outputCache,
                   cachesBefore |-> caches,
                   requestedBefore |-> requested[StagingCache],
                   servedBefore |-> served[StagingCache],
                   allocsBefore |-> allocCount,
                   ok |-> res.ok, buffer |-> res.buffer,
                   attempts |-> res.attempts,
                   copyDst |-> IF res.ok THEN res.buffer.addr ELSE 0,
                   status |-> IF res.ok THEN status ELSE 0,
                   outcome |-> InputOutcome(res, status)]
  /\ UNCHANGED <<inputCache, outputCache, alive, nSwaps, nmsFields, execVars,
                 geomHist>>

\* A swap without the temporary: outputCache = inputCache; inputCache =
\* outputCache.
SwappedPointers_NoTemp(inp, out) == <<inp, inp>>

\* The pointers after swapIO: <<inputCache, outputCache>>.
SwappedPointers(inp, out) ==
  LET tmp == out
  IN  <<tmp, inp>>

NoCall == [op |-> "none"]

swapIO ==
  /\ alive
  /\ inputCache' = SwappedPointers(inputCache, outputCache)[1]
  /\ outputCache' = SwappedPointers(inputCache, outputCache)[2]
  /\ nSwaps' = nSwaps + 1
  /\ call' = [op |-> "swapIO", inputBefore |-> inputCache,
              outputBefore |-> outputCache, cachesBefore |-> caches,
              allocsBefore |-> allocCount]
  /\ UNCHANGED <<caches, deviceLive, allocCount, alive, requested, served,
                 handedOut,
                 nmsFields, execVars, geomHist>>

\* ~CUDAImagePreprocessor: both caches are deleted, and each cache's
\* destruction releases the device allocations it holds.
destroy ==
  /\ alive
  /\ alive' = FALSE
  /\ deviceLive' = deviceLive \
                     {b.addr : b \in caches[inputCache] \cup
                                     caches[outputCache]}
  /\ caches' = [i \in DOMAIN caches |-> {}]
  /\ call' = [op |-> "destroy", inputBefore |-> inputCache,
              outputBefore |-> outputCache]
  /\ UNCHANGED <<inputCache, outputCache, allocCount, nSwaps, requested,
                 served, handedOut, nmsFields, execVars, geomHist>>

InitPre ==
  /\ inputCache = InputCacheId
  /\ outputCache = OutputCacheId
  /\ caches = [i \in {InputCacheId, OutputCacheId} |-> {}]
  /\ deviceLive = {}
  /\ allocCount = 0
  /\ alive = TRUE
  /\ call = NoCall
  /\ nSwaps = 0
  /\ requested = [i \in {InputCacheId, OutputCacheId} |-> {}]
  /\ served = [i \in {InputCacheId, OutputCacheId} |-> {}]
  /\ handedOut = {}

InitHist ==
  /\ setOrder = <<>>
  /\ nResets = 0

\* ------------------------------------------------------------ specs
Init == InitNMS /\ InitExec /\ InitPre /\ InitHist

\* The calls a client makes while no execute is in progress, with the
\* arguments drawn from the bounded sets above.
CallSetupImage ==
  /\ pc = "idle"
  /\ \E dx \in 1..MaxImageDim, dy \in 1..MaxImageDim : setupImage(dx, dy)
  /\ UNCHANGED geomHist

CallSetupInput ==
  /\ pc = "idle"
  /\ \E dx \in 1..MaxInputDim, dy \in 1..MaxInputDim : setupInput(dx, dy)
  /\ UNCHANGED geomHist

CallSetupGrid ==
  /\ pc = "idle"
  /\ \E dx \in 1..MaxGridDim, dy \in 1..MaxGridDim : setupGrid(dx, dy)
  /\ UNCHANGED geomHist

CallExecute ==
  /\ pc = "idle"
  /\ \E n \in 1..MaxClasses, thr \in Thresholds :
       /\ n * gridSize <= MaxCoverageLen
       /\ \E cov \in [1..(n * gridSize) -> CoverageValues],
             cells \in [1..gridSize -> BoxOffsets] :
            executeCall(n, thr, cov, cells)

\* One ClusteredNonMaximumSuppression object and its client.
Next ==
  \/ CallSetupImage
  \/ CallSetupInput
  \/ CallSetupGrid
  \/ CallExecute
  \/ executeCell
  \/ executeCollect
  \/ executeReturn

Spec == Init /\ [][Next]_vars

\* The setters alone, over a wider range of dimensions, with their history.
Ready == imageReady /\ inputReady /\ gridReady

NoteSetter(name) ==
  /\ setOrder' = IF \E i \in 1..Len(setOrder) : setOrder[i] = name
                 THEN setOrder ELSE Append(setOrder, name)
  /\ nResets' = IF Ready THEN nResets + 1 ELSE nResets

GeomSetupImage ==
  /\ nResets < MaxResets
  /\ \E dx \in 1..MaxDim, dy \in 1..MaxDim : setupImage(dx, dy)
  /\ NoteSetter("image")

GeomSetupInput ==
  /\ nResets < MaxResets
  /\ \E dx \in 1..MaxDim, dy \in 1..MaxDim : setupInput(dx, dy)
  /\ NoteSetter("input")

GeomSetupGrid ==
  /\ nResets < MaxResets
  /\ \E dx \in 1..MaxDim, dy \in 1..MaxDim : setupGrid(dx, dy)
  /\ NoteSetter("grid")

NextGeometry ==
  \/ GeomSetupImage
  \/ GeomSetupInput
  \/ GeomSetupGrid

SpecGeometry == Init /\ [][NextGeometry]_vars

CallInputFromHost ==
  \E size \in 1..MaxSize, allocOk \in BOOLEAN, status \in CopyStatuses :
    inputFromHost(size, allocOk, status)

CallSwapIO == nSwaps < MaxSwaps /\ swapIO

\* One CUDAImagePreprocessor object and its client.
NextPre ==
  \/ CallInputFromHost
  \/ CallSwapIO
  \/ destroy

SpecPre == Init /\ [][NextPre]_vars

\* ============================================================ claims

\* C1 (as claimed): an execute that ends while at least one of setupImage,
\* setupInput, setupGrid has never been called ends in NotConfiguredError
\* and not in a returned list of regions.
C1_UnconfiguredExecuteFails ==
  (pc = "done" /\ ~Ready) => outcome = "NotConfiguredError"

\* C5: once each setter has been called at least once, the four scale
\* factors are determined by the dimensions currently held, whatever the
\* order of the calls and however often a dimension set was re-set.
C5_ScaleFromCurrentDims ==
  Ready =>
    /\ imageScaleX = calculateScaleX(inputDimX, imageDimX)
    /\ imageScaleY = calculateScaleY(inputDimY, imageDimY)
    /\ cellWidth = calculateCellWidth(inputDimX, gridDimX)
    /\ cellHeight = calculateCellHeight(inputDimY, gridDimY)

\* C5 witness: the grid was supplied first, the image last, two dimension
\* sets were re-set afterwards, and the four factors differ from the initial 0.
C5_Witness ==
  /\ Ready
  /\ setOrder = <<"grid", "input", "image">>
  /\ nResets = 2
  /\ imageScaleX = 3 /\ imageScaleY = 1 /\ cellWidth = 1 /\ cellHeight = 3

\* C6 (as claimed): once all three dimension sets are supplied, each scale
\* factor is the exact ratio of its two dimensions: imageScale * imageSize is
\* the input size and cellSize * gridSize is the input size, in each axis.
C6_ExactRatio ==
  Ready =>
    /\ imageScaleX * imageDimX = inputDimX
    /\ imageScaleY * imageDimY = inputDimY
    /\ cellWidth * gridDimX = inputDimX
    /\ cellHeight * gridDimY = inputDimY

\* ------------------------------------------------------------ execute claims
\* Cell i of the grid in row-major order is (x, y) = (i % gridDimX,
\* i \div gridDimX); its coverage for class cc and its scaled rectangle.
CellIsAbove(cc, i) == coverage[cc * gridSize + i + 1] > coverageThreshold

CellCandidate(cc, i) == Candidate(cc, i \div gridDimX, i % gridDimX)

\* The above-threshold cells of class cc from cell i on, in row-major order.
RECURSIVE AboveFrom(_, _)
AboveFrom(cc, i) ==
  IF i >= gridSize THEN <<>>
  ELSE (IF CellIsAbove(cc, i) THEN <<i>> ELSE <<>>) \o AboveFrom(cc, i + 1)

\* <<x, y, width, height>> of cell i's rectangle: the box offsets moved by
\* the cell's origin, scaled, each edge truncated, then the differences.
CellBox(i) ==
  LET cx == i % gridDimX
      cy == i \div gridDimX
      left == (bboxes[i + 1] + 2 * cx * cellWidth) * imageScaleX
      top == (bboxes[gridSize + i + 1] + 2 * cy * cellHeight) * imageScaleY
      right == (bboxes[2 * gridSize + i + 1] + 2 * cx * cellWidth) * imageScaleX
      bottom == (bboxes[3 * gridSize + i + 1] + 2 * cy * cellHeight)
                  * imageScaleY
  IN  <<left \div 2, top \div 2, (right \div 2) - (left \div 2),
        (bottom \div 2) - (top \div 2)>>

RegionBox(reg) == <<reg.x, reg.y, reg.w, reg.h>>

RegionsOf(cc) == SelectSeq(classRectangles, LAMBDA reg : reg.classID = cc)

NoTwoCandidatesOverlap(cc) ==
  \A i, j \in 0..(gridSize - 1) :
    (i # j /\ CellIsAbove(cc, i) /\ CellIsAbove(cc, j))
      => ~rectOverlap(CellCandidate(cc, i), CellCandidate(cc, j))

\* C2: when execute returns, for every class whose candidate rectangles are
\* pairwise non-overlapping, the class has one region per above-threshold
\* cell (strictly above), in row-major cell order, and each region's box is
\* that cell's scaled rectangle after truncation; a class with no cell above
\* the threshold has no region.
C2_DisjointCandidatesKept ==
  pc = "done" =>
    \A cc \in 0..(nbClasses - 1) :
      NoTwoCandidatesOverlap(cc) =>
        /\ Len(RegionsOf(cc)) = Len(AboveFrom(cc, 0))
        /\ \A k \in 1..Len(AboveFrom(cc, 0)) :
             RegionBox(RegionsOf(cc)[k]) = CellBox(AboveFrom(cc, 0)[k])

\* C2 witness: a 2x2 grid scaled by 2 with three pairwise disjoint candidates
\* and one cell that sits exactly on the threshold, after execute returned.
C2_Witness ==
  /\ pc = "done"
  /\ gridDimX = 2 /\ gridDimY = 2 /\ imageScaleX = 2
  /\ NoTwoCandidatesOverlap(0)
  /\ Len(AboveFrom(0, 0)) = 3
  /\ \E i \in 0..3 : coverage[i + 1] = coverageThreshold
  /\ Len(classRectangles) = 3

\* The accumulated rectangles that overlap rect.
Overlapping(rs, rect) == {i \in 1..Len(rs) : rectOverlap(rs[i], rect)}

\* C3: mergeRect(rects, rect): if some accumulated rectangle overlaps rect,
\* the first such in insertion order gets the edges min(left), min(top),
\* max(right), max(bottom) of the two, every other rectangle and the length
\* are unchanged; if none overlaps, rect is appended at the end and nothing
\* else changes.
C3_MergeFirstMatch ==
  lastMerge.called =>
    LET before == lastMerge.before
        rect == lastMerge.rect
        after == lastMerge.after
        ov == Overlapping(before, rect)
    IN  IF ov # {}
        THEN LET f == CHOOSE i \in ov : \A j \in ov : i <= j
             IN  /\ Len(after) = Len(before)
                 /\ after[f].x = Min(before[f].x, rect.x)
                 /\ after[f].y = Min(before[f].y, rect.y)
                 /\ after[f].z = Max(before[f].z, rect.z)
                 /\ after[f].w = Max(before[f].w, rect.w)
                 /\ \A i \in 1..Len(before) : i # f => after[i] = before[i]
        ELSE after = Append(before, rect)

\* C3 witness: a mergeRect call whose rectangle overlaps two accumulated
\* rectangles and enlarges the first of them.
C3_Witness ==
  /\ lastMerge.called
  /\ Cardinality(Overlapping(lastMerge.before, lastMerge.rect)) >= 2
  /\ lastMerge.after[1] # lastMerge.before[1]
  /\ lastMerge.after[2] = lastMerge.before[2]

\* The <<class, cell>> pairs of the accumulated rectangles, class by class.
RECURSIVE OriginsFrom(_)
OriginsFrom(cc) ==
  IF cc >= nbClasses THEN <<>>
  ELSE [k \in 1..Len(origin[cc + 1]) |-> <<cc, origin[cc + 1][k]>>]
         \o OriginsFrom(cc + 1)

\* C4: every accumulated rectangle keeps the class id and the confidence of
\* the cell whose candidate was appended as it, however many candidates are
\* merged into it later, and every region execute returns carries them.
C4_ConfidenceOfCreator ==
  /\ pc \in {"cluster", "collect", "done"} =>
       \A cc \in 0..(nbClasses - 1) :
         /\ Len(origin[cc + 1]) = Len(rects[cc + 1])
         /\ \A k \in 1..Len(rects[cc + 1]) :
              /\ rects[cc + 1][k].u = cc
              /\ rects[cc + 1][k].v
                   = coverage[cc * gridSize + origin[cc + 1][k] + 1]
  /\ pc = "done" =>
       /\ Len(classRectangles) = Len(OriginsFrom(0))
       /\ \A k \in 1..Len(classRectangles) :
            /\ classRectangles[k].classID = OriginsFrom(0)[k][1]
            /\ classRectangles[k].coverage
                 = coverage[OriginsFrom(0)[k][1] * gridSize
                              + OriginsFrom(0)[k][2] + 1]

\* C4 witness: execute returned a class-1 region created by a cell of
\* confidence 7 into which a later cell of confidence 9 was merged.
C4_Witness ==
  /\ pc = "done"
  /\ nbClasses = 2
  /\ Len(rects[2]) = 1
  /\ rects[2][1].v = 7
  /\ \E i \in 0..(gridSize - 1) :
       /\ i > origin[2][1]
       /\ coverage[gridSize + i + 1] = 9
       /\ CellIsAbove(1, i)
  /\ \E k \in 1..Len(classRectangles) :
       classRectangles[k].classID = 1 /\ classRectangles[k].coverage = 7

\* The cells of class cc execute has processed so far.
Processed(cc) ==
  IF pc = "cluster"
  THEN (IF cc < c THEN gridSize
        ELSE IF cc = c THEN y * gridDimX + x ELSE 0)
  ELSE gridSize

AboveProcessed(cc) ==
  Cardinality({i \in 0..(Processed(cc) - 1) : CellIsAbove(cc, i)})

RECURSIVE TotalRects(_)
TotalRects(cc) ==
  IF cc >= nbClasses THEN 0 ELSE Len(rects[cc + 1]) + TotalRects(cc + 1)

\* C10: during and after execute, no class has more accumulated rectangles
\* than above-threshold cells processed so far; a mergeRect call adds at most
\* one rectangle and removes none; and the regions returned are all the
\* accumulated rectangles, at most gridSize * nbClasses of them.
C10_RectCountBounded ==
  /\ pc \in {"cluster", "collect", "done"} =>
       \A cc \in 0..(nbClasses - 1) : Len(rects[cc + 1]) <= AboveProcessed(cc)
  /\ lastMerge.called =>
       Len(lastMerge.after) - Len(lastMerge.before) \in {0, 1}
  /\ pc = "done" =>
       /\ Len(classRectangles) = TotalRects(0)
       /\ Len(classRectangles) <= gridSize * nbClasses

\* C10 witness: execute returned gridSize * nbClasses regions for two
\* classes, the most the boxIndex guard lets through.
C10_Witness ==
  /\ pc = "done"
  /\ nbClasses = 2 /\ gridSize = 2
  /\ Len(classRectangles) = gridSize * nbClasses

\* C11 (as claimed): when execute returns, no two accumulated rectangles of
\* one class overlap under rectOverlap, also after a merge has enlarged an
\* earlier rectangle so that it reaches another rectangle of the class.
C11_NoOverlapAtReturn ==
  pc = "done" =>
    \A cc \in 0..(nbClasses - 1) :
      \A i, j \in 1..Len(rects[cc + 1]) :
        i < j => ~rectOverlap(rects[cc + 1][i], rects[cc + 1][j])

\* The candidate whose append created the k-th accumulated rectangle of
\* class cc.
Creator(cc, k) == CellCandidate(cc, origin[cc + 1][k])

\* C11 (amended): a candidate is appended as a new rectangle only when it
\* overlaps none of the rectangles accumulated for its class at that moment,
\* so the candidates that created the accumulated rectangles of one class
\* are pairwise non-overlapping; every accumulated rectangle contains the
\* candidate that created it, its edges having only moved outwards; and two
\* accumulated rectangles of one class overlap only if a merge has enlarged
\* one of them, when execute returns. mergeRect does not merge the enlarged
\* rectangle with the others, so such an overlap stays in the regions
\* execute returns.
C11_OverlapOnlyAfterMerge ==
  /\ lastMerge.called /\ Len(lastMerge.after) > Len(lastMerge.before) =>
       \A i \in 1..Len(lastMerge.before) :
         ~rectOverlap(lastMerge.before[i], lastMerge.rect)
  /\ pc = "done" =>
       \A cc \in 0..(nbClasses - 1) :
         LET rs == rects[cc + 1]
             made == [k \in 1..Len(origin[cc + 1]) |-> Creator(cc, k)]
         IN  /\ Len(made) = Len(rs)
             /\ \A j \in 1..Len(rs) :
                  /\ rs[j].x <= made[j].x /\ rs[j].y <= made[j].y
                  /\ rs[j].z >= made[j].z /\ rs[j].w >= made[j].w
                  /\ \A i \in 1..(j - 1) :
                       /\ ~rectOverlap(made[i], made[j])
                       /\ rectOverlap(rs[i], rs[j])
                            => rs[i] # made[i] \/ rs[j] # made[j]

\* C11 witness: execute returned two regions of one class whose accumulated
\* rectangles overlap, the earlier one enlarged by a merge and the later one
\* still the candidate that created it.
C11_Witness ==
  /\ pc = "done"
  /\ \E cc \in 0..(nbClasses - 1) :
       /\ Len(RegionsOf(cc)) = Len(rects[cc + 1])
       /\ \E j \in 1..Len(rects[cc + 1]) : \E i \in 1..(j - 1) :
            /\ rectOverlap(rects[cc + 1][i], rects[cc + 1][j])
            /\ rects[cc + 1][i] # Creator(cc, i)
            /\ rects[cc + 1][j] = Creator(cc, j)

\* ------------------------------------------------------------ cache claims
CanServe(bufs, size) == \E b \in bufs : b.capacity >= size

\* C7 (as claimed): a call whose size was requested of the same cache before
\* allocates nothing and gets a buffer of capacity at least size; a call whose
\* size is larger than every cached buffer makes exactly one new allocation;
\* no buffer handed out is freed while the preprocessor is alive.
C7_ReuseAsClaimed ==
  /\ call.op = "inputFromHost" =>
       /\ call.size \in call.requestedBefore =>
            /\ allocCount = call.allocsBefore
            /\ call.ok /\ call.buffer.capacity >= call.size
       /\ ~CanServe(call.cachesBefore[call.cache], call.size) =>
            allocCount = call.allocsBefore + 1
  /\ alive => handedOut \subseteq deviceLive

\* C7 (amended): a call whose size a cached buffer can serve, in particular a
\* size an earlier call on the same cache returned a buffer for, allocates
\* nothing, leaves the cache as it was and returns a cached buffer of
\* capacity at least size; a call whose size is larger than every cached
\* buffer makes exactly one allocation attempt, which either adds one buffer
\* of exactly that size to the cache and returns it, or fails with
\* AllocationError and leaves the cache as it was; no buffer handed out is
\* freed while the preprocessor is alive.
C7_ReuseUnlessAllocationFails ==
  /\ call.op = "inputFromHost" =>
       LET before == call.cachesBefore[call.cache]
           now == caches[call.cache]
       IN  /\ call.size \in call.servedBefore => CanServe(before, call.size)
           /\ CanServe(before, call.size) =>
                /\ allocCount = call.allocsBefore
                /\ call.attempts = 0
                /\ call.ok
                /\ call.buffer \in before
                /\ call.buffer.capacity >= call.size
                /\ now = before
           /\ ~CanServe(before, call.size) =>
                /\ call.attempts = 1
                /\ \/ /\ call.ok
                      /\ allocCount = call.allocsBefore + 1
                      /\ call.buffer.capacity = call.size
                      /\ call.buffer \notin before
                      /\ now = before \cup {call.buffer}
                   \/ /\ ~call.ok
                      /\ call.outcome = "AllocationError"
                      /\ allocCount = call.allocsBefore
                      /\ now = before
  /\ alive => handedOut \subseteq deviceLive

\* C7 witness: a cache that holds two buffers serves the smaller size, which
\* it served before, without allocating.
C7_Witness ==
  /\ call.op = "inputFromHost"
  /\ call.size \in call.servedBefore
  /\ allocCount = call.allocsBefore
  /\ Cardinality(caches[call.cache]) = 2
  /\ call.size = 1
  /\ call.ok /\ call.buffer.capacity >= call.size

\* C8: after n swapIO calls, interleaved with inputFromHost calls, inputCache
\* is the cache the constructor created as input when n is even and the one
\* it created as output when n is odd, outputCache is the other one, the two
\* pointers differ, and a swapIO call changes the two pointers only.
C8_SwapByIdentity ==
  /\ nSwaps % 2 = 0 =>
       inputCache = InputCacheId /\ outputCache = OutputCacheId
  /\ nSwaps % 2 = 1 =>
       inputCache = OutputCacheId /\ outputCache = InputCacheId
  /\ inputCache # outputCache
  /\ call.op = "swapIO" =>
       /\ inputCache = call.outputBefore
       /\ outputCache = call.inputBefore
       /\ caches = call.cachesBefore
       /\ allocCount = call.allocsBefore

\* C8 witness: two swaps made, with both caches holding buffers staged
\* between the swaps.
C8_Witness ==
  /\ nSwaps = 2
  /\ caches[InputCacheId] # {} /\ caches[OutputCacheId] # {}
  /\ call.op = "swapIO"

\* C9: inputFromHost acquires from the cache that holds the input role when
\* it is called, leaves the other cache alone and copies into the acquired
\* buffer; a non-zero cudaMemcpy status ends the call in std::runtime_error;
\* the two pointers are the same after the call as before.
C9_StageIntoInputRole ==
  call.op = "inputFromHost" =>
    /\ call.cache = call.inputBefore
    /\ caches[call.outputBefore] = call.cachesBefore[call.outputBefore]
    /\ call.ok =>
         /\ call.buffer \in caches[call.inputBefore]
         /\ call.copyDst = call.buffer.addr
    /\ call.status # 0 => call.outcome = "runtime_error"
    /\ call.outcome \in {"returned", "runtime_error", "AllocationError"}
    /\ call.outcome = "returned" => call.ok /\ call.status = 0
    /\ inputCache = call.inputBefore
    /\ outputCache = call.outputBefore

\* C9 witness: after one swap, a copy into a buffer of the cache created as
\* output fails with status 11 and the call throws.
C9_Witness ==
  /\ call.op = "inputFromHost"
  /\ nSwaps = 1
  /\ call.cache = OutputCacheId
  /\ call.ok /\ call.status = 11
  /\ call.outcome = "runtime_error"
  /\ inputCache = OutputCacheId

====
